---- MODULE Spec2Model ----
(***************************************************************************)
(* Model of mssb_1099b_to_csv.py and mssb_1099b_to_txf.py: extraction of   *)
(* 1099-B sale rows from the text of a PDF, grouping, sorting and the two  *)
(* renderings (CSV lines, TXF blocks).                                     *)
(*                                                                         *)
(* A string is a tuple of characters, each character a string of length    *)
(* one.  Positions in a text are 1-based: position i stands before the     *)
(* character t[i], and Len(t)+1 is the end of the text.                    *)
(***************************************************************************)
EXTENDS Integers, Sequences, FiniteSets, TLC

VARIABLES
    mode,       \* what runs: "parse" (the parsing functions on a text), "rows"
                \* (the list functions on a list), "csv" or "txf" (the programs)
    pc,         \* where the run is
    input,      \* how the text of the parsing functions was put together
    text,       \* the text given to the parsing functions
    files,      \* per input file of the programs what pdftotext gives for it
    optSort,    \* args.sort
    optGroup,   \* args.group
    fileIdx,    \* the number of input files extracted so far
    rowIdx,     \* the number of rows parseAndPrintPdf has printed so far
    rows,       \* the list `rows`
    rows0,      \* the list before the last list function was applied to it
    ops,        \* the list functions applied so far
    stdout      \* the lines written to standard output so far

vars ==
    << mode, pc, input, text, files, optSort, optGroup, fileIdx, rowIdx,
       rows, rows0, ops, stdout >>

----------------------------------------------------------------------------
(* Values *)

\* The element of a set of one element.  The({ e(x) : x \in {v} }) is e(v)
\* with v evaluated once.
The(S) == CHOOSE x \in S : TRUE

\* A function on 1..n as a tuple, all its elements evaluated.
Tuple(f) == << >> \o f

Max(S) == CHOOSE x \in S : \A y \in S : y <= x
Min(S) == CHOOSE x \in S : \A y \in S : x <= y

\* The k-th smallest element of a set of numbers.
Nth(S, k) == CHOOSE i \in S : Cardinality({j \in S : j < i}) = k - 1

\* The positions a..b from the last to the first: the order in which a greedy
\* repetition gives characters back.
Descending(a, b) == [k \in 1..(IF b >= a THEN b - a + 1 ELSE 0) |-> b - k + 1]

\* The tuples of ss one after the other, ss[1] to ss[n].
RECURSIVE ConcatTo(_, _)
ConcatTo(ss, n) == IF n = 0 THEN << >> ELSE ConcatTo(ss, n - 1) \o ss[n]

Concat(ss) == ConcatTo(ss, Len(ss))

\* The sequences of length 1 to n of elements of S.
SeqsUpTo(S, n) == UNION { [1..k -> S] : k \in 1..n }

----------------------------------------------------------------------------
(* Characters *)

\* The digits and the letters, each in code point order.
Digits == << "0", "1", "2", "3", "4", "5", "6", "7", "8", "9" >>

Upper ==
    << "A", "B", "C", "D", "E", "F", "G", "H", "I", "J", "K", "L", "M",
       "N", "O", "P", "Q", "R", "S", "T", "U", "V", "W", "X", "Y", "Z" >>

Lower ==
    << "a", "b", "c", "d", "e", "f", "g", "h", "i", "j", "k", "l", "m",
       "n", "o", "p", "q", "r", "s", "t", "u", "v", "w", "x", "y", "z" >>

Range(s) == {s[k] : k \in 1..Len(s)}

IndexOf(s, c) == CHOOSE k \in 1..Len(s) : s[k] = c

\* The en dash of the category names (U+2013).
EnDash == "ndash"

\* The code point of a character: what the comparison of Python strings compares.
Ord(c) ==
    CASE c \in Range(Digits) -> 47 + IndexOf(Digits, c)
      [] c \in Range(Upper) -> 64 + IndexOf(Upper, c)
      [] c \in Range(Lower) -> 96 + IndexOf(Lower, c)
      [] c = "\t" -> 9
      [] c = "\n" -> 10
      [] c = " " -> 32
      [] c = "$" -> 36
      [] c = "," -> 44
      [] c = "." -> 46
      [] c = "/" -> 47
      [] c = "_" -> 95
      [] c = EnDash -> 8211

IsDigit(c) == c \in Range(Digits)

IsAlpha(c) == c \in Range(Upper) \cup Range(Lower)

\* \w
IsWord(c) == IsDigit(c) \/ IsAlpha(c) \/ c = "_"

\* \s
IsSpace(c) == c \in {" ", "\n", "\t", "\r", "\f"}

\* The character classes of ROW_EXPR, by name.
InClass(cls, c) ==
    CASE cls = "d" -> IsDigit(c)                              \* \d
      [] cls = "w" -> IsWord(c)                               \* \w
      [] cls = "s" -> IsSpace(c)                              \* \s
      [] cls = "desc" -> IsWord(c) \/ c = " "                 \* [\w ]
      [] cls = "money" -> IsDigit(c) \/ c = "," \/ c = "."    \* [0-9,.]

\* The length of the longest run of characters of a class that starts at i.
RECURSIVE Run(_, _, _)
Run(t, i, cls) ==
    IF i > Len(t) \/ ~InClass(cls, t[i]) THEN 0 ELSE 1 + Run(t, i + 1, cls)

\* t[i] is the character c.
CharAt(t, i, c) == i <= Len(t) /\ t[i] = c

\* The literal s occurs in t at position i.
LitAt(t, i, s) ==
    /\ i + Len(s) - 1 <= Len(t)
    /\ \A k \in 1..Len(s) : t[i + k - 1] = s[k]

\* ^ under re.MULTILINE: the start of the text or just after a newline.
LineStart(t, i) == i = 1 \/ (i >= 2 /\ i <= Len(t) + 1 /\ t[i - 1] = "\n")

----------------------------------------------------------------------------
(* Regular expression matching, as re does it: the alternatives of every   *)
(* choice are tried in order (an optional group first present then absent, *)
(* a greedy repetition from its longest extent down), and the first choice *)
(* after which the rest of the pattern matches is taken.  The result of    *)
(* matching a pattern at a position is a record: ok, the end of the match, *)
(* and the captured groups of the pattern in order.                        *)

\* What group() gives for a group that took no part in the match.
None == << "None" >>

Fail == [ok |-> FALSE, end |-> 0, groups |-> << >>]

Ok(e, g) == [ok |-> TRUE, end |-> e, groups |-> g]

\* The ends of \d+ at i, longest first.
DigitsEnds(t, i) == Descending(i + 1, i + Run(t, i, "d"))

\* The ends of \w+ at i, longest first.
WordEnds(t, i) == Descending(i + 1, i + Run(t, i, "w"))

\* The ends of [\w ]+ at i, longest first.
DescriptionEnds(t, i) == Descending(i + 1, i + Run(t, i, "desc"))

\* The ends of \s+ at i, longest first.
SpaceEnds(t, i) == Descending(i + 1, i + Run(t, i, "s"))

\* The ends of [a-zA-Z]\d\d at i.
PlanEnds(t, i) ==
    IF /\ i + 2 <= Len(t)
       /\ IsAlpha(t[i]) /\ IsDigit(t[i + 1]) /\ IsDigit(t[i + 2])
    THEN << i + 3 >> ELSE << >>

\* The ends of \d+\.\d+ at i, longest first.  A \d+ that a character other
\* than a digit must follow can only end where its run of digits ends.
QuantityEnds(t, i) ==
    LET a == i + Run(t, i, "d")
    IN  IF a > i /\ CharAt(t, a, ".")
        THEN Descending(a + 2, a + 1 + Run(t, a + 1, "d"))
        ELSE << >>

\* The ends of \d+/\d+/\d+ at i, longest first.
DateEnds(t, i) ==
    LET a == i + Run(t, i, "d")
        b == a + 1 + Run(t, a + 1, "d")
    IN  IF a > i /\ CharAt(t, a, "/") /\ b > a + 1 /\ CharAt(t, b, "/")
        THEN Descending(b + 2, b + 1 + Run(t, b + 1, "d"))
        ELSE << >>

\* The ends of (?:\d+/\d+/\d+|\w+) at i: those of the date, then those of the word.
DateAcquiredEnds(t, i) == DateEnds(t, i) \o WordEnds(t, i)

\* The ends of \$[0-9,.]+ at i, longest first.
MoneyEnds(t, i) ==
    IF CharAt(t, i, "$")
    THEN Descending(i + 2, i + 1 + Run(t, i + 1, "money"))
    ELSE << >>

\* The ends of a token of ROW_EXPR at i, in the order of trial.
TokenEnds(token, t, i) ==
    CASE token = "\\d+" -> DigitsEnds(t, i)
      [] token = "[a-zA-Z]\\d\\d" -> PlanEnds(t, i)
      [] token = "[\\w ]+" -> DescriptionEnds(t, i)
      [] token = "\\w+" -> WordEnds(t, i)
      [] token = "\\d+\\.\\d+" -> QuantityEnds(t, i)
      [] token = "(?:\\d+/\\d+/\\d+|\\w+)" -> DateAcquiredEnds(t, i)
      [] token = "\\d+/\\d+/\\d+" -> DateEnds(t, i)
      [] token = "\\$[0-9,.]+" -> MoneyEnds(t, i)

\* The ends of the whitespace after a token, in the order of trial: \s+ is
\* greedy, \s takes one character.
AfterEnds(space, t, i) ==
    IF space = "\\s+" THEN SpaceEnds(t, i)
    ELSE IF i <= Len(t) /\ IsSpace(t[i]) THEN << i + 1 >> ELSE << >>

\* The ways to match a field at i, its token and the whitespace after it:
\* <<k, j, c, e>> stands for the k-th end c of the token and the j-th end e of
\* the whitespace after it, both in the order of trial.
Splits(f, t, i) ==
    UNION { UNION { UNION { { << k, j, ends[k], after[j] >> : j \in 1..Len(after) }
                            : after \in { Tuple(AfterEnds(f.space, t, ends[k])) } }
                    : k \in 1..Len(ends) }
            : ends \in { Tuple(TokenEnds(f.token, t, i)) } }

\* p is tried before q.
TriedBefore(p, q) == p[1] < q[1] \/ (p[1] = q[1] /\ p[2] <= q[2])

\* Of the tries <<p, r>>, r the match of the rest of the pattern after the
\* split p, the first in the order of trial whose rest matched; << >> if none.
FirstMatch(tries) ==
    The({ IF good = {} THEN << >>
          ELSE CHOOSE x \in good : \A y \in good : TriedBefore(x[1], y[1])
          : good \in { {x \in tries : x[2].ok} } })

\* ROW_EXPR after the ^: for each captured field its token, whether the field
\* with its whitespace is optional, (?: ... )?, and the whitespace after it.
ROW_FIELDS ==
    << [token |-> "\\d+", optional |-> TRUE, space |-> "\\s+"],
       [token |-> "[a-zA-Z]\\d\\d", optional |-> TRUE, space |-> "\\s+"],
       [token |-> "[\\w ]+", optional |-> FALSE, space |-> "\\s+"],
       [token |-> "\\w+", optional |-> FALSE, space |-> "\\s+"],
       [token |-> "\\d+\\.\\d+", optional |-> FALSE, space |-> "\\s+"],
       [token |-> "(?:\\d+/\\d+/\\d+|\\w+)", optional |-> FALSE, space |-> "\\s+"],
       [token |-> "\\d+/\\d+/\\d+", optional |-> FALSE, space |-> "\\s+"],
       [token |-> "\\$[0-9,.]+", optional |-> FALSE, space |-> "\\s+"],
       [token |-> "\\$[0-9,.]+", optional |-> FALSE, space |-> "\\s"] >>

\* The match r of the rest of the pattern, as the match of the pattern with
\* an optional field left out: the group of the field is None.
LeftOut(r) ==
    The({ IF v.ok THEN Ok(v.end, << None >> \o v.groups) ELSE Fail : v \in {r} })

\* The match of the fields n, n+1, ... of ROW_EXPR at i: the field n with its
\* whitespace and then the rest, in the first way in the order of trial in
\* which the rest matches; an optional field that cannot be matched so is
\* left out.
RECURSIVE RowFrom(_, _, _)
RowFrom(n, t, i) ==
    IF n > Len(ROW_FIELDS) THEN Ok(i, << >>)
    ELSE The({ IF x # << >>
               THEN Ok(x[2].end, << SubSeq(t, i, x[1][3] - 1) >> \o x[2].groups)
               ELSE IF ROW_FIELDS[n].optional THEN LeftOut(RowFrom(n + 1, t, i))
               ELSE Fail
               : x \in { FirstMatch({ << p, RowFrom(n + 1, t, p[4]) >> :
                                      p \in Splits(ROW_FIELDS[n], t, i) }) } })

\* ROW_EXPR.match at position i: ^ and the nine fields.
ROW_EXPR(t, i) == IF LineStart(t, i) THEN RowFrom(1, t, i) ELSE Fail

----------------------------------------------------------------------------
(* Sections and rows *)

ShortTerm ==
    << "S", "h", "o", "r", "t", " ", "T", "e", "r", "m", " ", EnDash, " ", "N", "o", "n", "c", "o", "v", "e", "r", "e", "d", " ", "S", "e", "c", "u", "r", "i", "t", "i", "e", "s" >>

LongTerm ==
    << "L", "o", "n", "g", " ", "T", "e", "r", "m", " ", EnDash, " ", "N", "o", "n", "c", "o", "v", "e", "r", "e", "d", " ", "S", "e", "c", "u", "r", "i", "t", "i", "e", "s" >>

\* CATEGORIES, in the order of the dictionary: <<category name, TXF code>>.
CATEGORIES ==
    << << ShortTerm, << "7", "1", "1" >> >>,
       << LongTerm, << "7", "1", "3" >> >> >>

\* The literal that ends SECTION_EXPR.
Total == << "T", "o", "t", "a", "l" >>

\* SectionAlternative with a slip: a section with no Total line after it runs
\* to the end of the text.
SectionAlternativeToEnd(t, i, label) ==
    LET from == i + Len(label)
        stops == {e \in from..Len(t) : LineStart(t, e) /\ LitAt(t, e, Total)}
    IN  IF ~LitAt(t, i, label) THEN Fail
        ELSE IF stops = {} THEN Ok(Len(t) + 1, << label, SubSeq(t, from, Len(t)) >>)
        ELSE Ok(Min(stops) + Len(Total), << label, SubSeq(t, from, Min(stops) - 1) >>)

\* One alternative of SECTION_EXPR at i: the category name, (.*?) under
\* re.DOTALL, ^Total under re.MULTILINE.  The lazy .*? stops at the first
\* line start where Total follows.
SectionAlternative(t, i, label) ==
    LET from == i + Len(label)
        stops == {e \in from..Len(t) : LineStart(t, e) /\ LitAt(t, e, Total)}
    IN  IF LitAt(t, i, label) /\ stops # {}
        THEN Ok(Min(stops) + Len(Total), << label, SubSeq(t, from, Min(stops) - 1) >>)
        ELSE Fail

\* SECTION_EXPR.match at position i: the category names are tried in order.
SECTION_EXPR(t, i) ==
    LET good == {k \in 1..Len(CATEGORIES) : SectionAlternative(t, i, CATEGORIES[k][1]).ok}
    IN  IF good = {} THEN Fail ELSE SectionAlternative(t, i, CATEGORIES[Min(good)][1])

\* Row(*((section_name, ) + row_match.groups()))
Row(section_name, g) ==
    [Category |-> section_name, RefNumber |-> g[1], PlanNumber |-> g[2],
     Description |-> g[3], CUSIP |-> g[4], Quantity |-> g[5],
     DateAcquired |-> g[6], DateSold |-> g[7], GrossProceeds |-> g[8],
     CostBasis |-> g[9]]

\* RowsFrom with a slip: the search goes on from the line after the start of
\* the last match, not from its end.
RECURSIVE RowsFromEveryLineStart(_, _, _)
RowsFromEveryLineStart(section_name, t, pos) ==
    The({ IF starts = {} THEN << >>
          ELSE << Row(section_name, ROW_EXPR(t, Min(starts)).groups) >>
                   \o RowsFromEveryLineStart(section_name, t, Min(starts) + 1)
          : starts \in { {s \in pos..Len(t) : ROW_EXPR(t, s).ok} } })

\* The rows of the matches ROW_EXPR.finditer finds from position pos on: the
\* leftmost match, then those found from where it ended.
RECURSIVE RowsFrom(_, _, _)
RowsFrom(section_name, t, pos) ==
    The({ IF starts = {} THEN << >>
          ELSE The({ << Row(section_name, m.groups) >> \o RowsFrom(section_name, t, m.end)
                     : m \in { ROW_EXPR(t, Min(starts)) } })
          : starts \in { {s \in pos..Len(t) : ROW_EXPR(t, s).ok} } })

parseSection(section_text, section_name) == RowsFrom(section_name, section_text, 1)

\* The rows of the sections SECTION_EXPR.finditer finds from position pos on:
\* those of the leftmost match, then those found from where it ended.
RECURSIVE SectionsFrom(_, _)
SectionsFrom(t, pos) ==
    The({ IF starts = {} THEN << >>
          ELSE The({ parseSection(m.groups[2], m.groups[1]) \o SectionsFrom(t, m.end)
                     : m \in { SECTION_EXPR(t, Min(starts)) } })
          : starts \in { {s \in pos..Len(t) : SECTION_EXPR(t, s).ok} } })

\* parsePdf on the text pdftotext gave.
parsePdf(t) == SectionsFrom(t, 1)

----------------------------------------------------------------------------
(* mergeRows *)

\* The power of ten with exponent n, for the exponents that occur.
Pow10(n) ==
    CASE n = 0 -> 1 [] n = 1 -> 10 [] n = 2 -> 100 [] n = 3 -> 1000
      [] n = 4 -> 10000 [] n = 5 -> 100000 [] n = 6 -> 1000000

\* The characters of s other than c, in order: s.replace(c, '').
RECURSIVE Without(_, _)
Without(s, c) ==
    IF s = << >> THEN << >>
    ELSE (IF Head(s) = c THEN << >> ELSE << Head(s) >>) \o Without(Tail(s), c)

\* int() of the first n characters of a string of digits; 0 if n is 0.
RECURSIVE DigitsValue(_, _)
DigitsValue(s, n) ==
    IF n = 0 THEN 0 ELSE 10 * DigitsValue(s, n - 1) + (IndexOf(Digits, s[n]) - 1)

\* The decimal digits of a natural number.
RECURSIVE DigitsOf(_)
DigitsOf(n) ==
    IF n < 10 THEN << Digits[n + 1] >> ELSE DigitsOf(n \div 10) \o << Digits[(n % 10) + 1] >>

\* decimal.Decimal of a numeral, digits with at most one ".": the coefficient
\* and the number of digits after the point (the exponent, negated).
Decimal(s) ==
    LET dots == {k \in 1..Len(s) : s[k] = "."}
    IN  [coef |-> DigitsValue(Without(s, "."), Len(s) - Cardinality(dots)),
         places |-> IF dots = {} THEN 0 ELSE Len(s) - Min(dots)]

\* D(string) of mergeRows.
D(string) == The({ Decimal(s) : s \in { Without(Without(string, "$"), ",") } })

\* DecimalAdd with a slip: the coefficients are added as they stand, without
\* bringing the two decimals to one exponent.
DecimalAddUnaligned(a, b) ==
    [coef |-> a.coef + b.coef,
     places |-> IF a.places >= b.places THEN a.places ELSE b.places]

\* Decimal.__add__: exact, and the exponent of the sum is the smaller of the two.
DecimalAdd(a, b) ==
    LET places == IF a.places >= b.places THEN a.places ELSE b.places
    IN  [coef |-> a.coef * Pow10(places - a.places) + b.coef * Pow10(places - b.places),
         places |-> places]

\* sum(...) of the first n of the decimals ds: from the integer 0, adding
\* from the left.
RECURSIVE DecimalSum(_, _)
DecimalSum(ds, n) ==
    IF n = 0 THEN [coef |-> 0, places |-> 0]
    ELSE The({ DecimalAdd(a, ds[n]) : a \in { DecimalSum(ds, n - 1) } })

\* A string of digits with a comma before every group of three digits
\* counted from the right.
RECURSIVE Thousands(_)
Thousands(ds) ==
    IF Len(ds) <= 3 THEN ds
    ELSE Thousands(SubSeq(ds, 1, Len(ds) - 3)) \o << "," >> \o SubSeq(ds, Len(ds) - 2, Len(ds))

\* ds with zeros put before it up to the length n.
RECURSIVE ZeroPad(_, _)
ZeroPad(ds, n) == IF Len(ds) >= n THEN ds ELSE ZeroPad(<< "0" >> \o ds, n)

\* f'{total:,}' of a decimal that is not negative and has at most six
\* digits after the point (such a decimal is never put in exponent form).
FormatDecimal(d) ==
    The({ Thousands(whole)
              \o (IF d.places = 0 THEN << >> ELSE << "." >> \o ZeroPad(frac, d.places))
          : whole \in { DigitsOf(d.coef \div Pow10(d.places)) },
            frac \in { DigitsOf(d.coef % Pow10(d.places)) } })

\* sumColumn(group, field_name)
sumColumn(group, field_name) ==
    The({ (IF CharAt(group[1][field_name], 1, "$") THEN << "$" >> ELSE << >>)
              \o FormatDecimal(total)
          : total \in { The({ DecimalSum(ds, Len(ds))
                              : ds \in { Tuple([k \in 1..Len(group) |->
                                                    D(group[k][field_name])]) } }) } })

\* mergeHelper with a slip: the merged row keeps the RefNumber of the first
\* row of its group.
mergeHelperKeepsRef(group) ==
    [group[1] EXCEPT !.PlanNumber = << >>,
                     !.Quantity = sumColumn(group, "Quantity"),
                     !.GrossProceeds = sumColumn(group, "GrossProceeds"),
                     !.CostBasis = sumColumn(group, "CostBasis")]

\* mergeHelper(group)
mergeHelper(group) ==
    [group[1] EXCEPT !.RefNumber = << >>,
                     !.PlanNumber = << >>,
                     !.Quantity = sumColumn(group, "Quantity"),
                     !.GrossProceeds = sumColumn(group, "GrossProceeds"),
                     !.CostBasis = sumColumn(group, "CostBasis")]

\* group_by of a row.
GroupBy(row) == << row.Category, row.Description, row.CUSIP, row.DateAcquired, row.DateSold >>

\* The rows of rs at the positions in idx, in order.
RowsAt(rs, idx) == Tuple([k \in 1..Cardinality(idx) |-> rs[Nth(idx, k)]])

\* groups.values(): a dict keeps its keys in the order they were first set,
\* and each group holds its rows in the order of the input.
Groups(rs) ==
    The({ Tuple([g \in 1..Cardinality(firsts) |->
                    RowsAt(rs, {j \in 1..Len(rs) : GroupBy(rs[j]) = GroupBy(rs[Nth(firsts, g)])})])
          : firsts \in { {i \in 1..Len(rs) :
                            \A j \in 1..(i - 1) : GroupBy(rs[j]) # GroupBy(rs[i])} } })

\* mergeRows(rows): the list after the call.
mergeRows(rs) ==
    The({ Tuple([k \in 1..Len(groups) |-> mergeHelper(groups[k])])
          : groups \in { Groups(rs) } })

----------------------------------------------------------------------------
(* sortRows *)

\* s < t for Python strings: by code points, a proper prefix first.
RECURSIVE StrLess(_, _)
StrLess(s, t) ==
    IF t = << >> THEN FALSE
    ELSE IF s = << >> THEN TRUE
    ELSE IF Head(s) # Head(t) THEN Ord(Head(s)) < Ord(Head(t))
    ELSE StrLess(Tail(s), Tail(t))

\* The key of sortRows.
SortKey(r) == << r.Category, r.Description, r.DateAcquired, r.DateSold, r.RefNumber >>

\* The first position where two keys differ, 0 if they are equal.
FirstDiff(a, b) ==
    LET diff == {k \in 1..Len(a) : a[k] # b[k]}
    IN  IF diff = {} THEN 0 ELSE Min(diff)

\* The comparison a < b of two keys raises TypeError: tuples compare by their
\* first unequal items, and None does not order against a string.
KeyCompareRaises(a, b) ==
    LET k == FirstDiff(a, b)
    IN  k # 0 /\ ((a[k] = None) # (b[k] = None))

\* a < b for two keys whose comparison does not raise.
KeyLess(a, b) ==
    LET k == FirstDiff(a, b)
    IN  k # 0 /\ StrLess(a[k], b[k])

\* list.sort raises when a comparison it makes raises.  A sort by comparisons
\* compares every two rows that end up next to each other, and rows equal in
\* the first four items of the key end up in one run, so the sort raises
\* exactly when two rows of the list have keys whose comparison raises.
SortRaises(rs) ==
    \E i, j \in 1..Len(rs) : KeyCompareRaises(SortKey(rs[i]), SortKey(rs[j]))

\* r put into the sorted list s after every row that is not greater than it.
Insert(s, r) ==
    LET before == {k \in 1..Len(s) : ~KeyLess(SortKey(r), SortKey(s[k]))}
        n == IF before = {} THEN 0 ELSE Max(before)
    IN  SubSeq(s, 1, n) \o << r >> \o SubSeq(s, n + 1, Len(s))

\* list.sort(key=...) of the first n rows when no comparison raises: a
\* stable sort.
RECURSIVE StableSort(_, _)
StableSort(rs, n) ==
    IF n = 0 THEN << >>
    ELSE The({ Insert(s, rs[n]) : s \in { StableSort(rs, n - 1) } })

\* sortRows(rows): the list after the call, when it returns.
sortRows(rs) == StableSort(rs, Len(rs))

----------------------------------------------------------------------------
(* Inputs.  The text given to the parsing functions is put together from   *)
(* row lines, category lines and Total lines; the rows given to the list   *)
(* functions are rows that ROW_EXPR can give.                              *)

\* The longest run of whitespace between two fields of a row line.
MaxSep == 2

\* The most sections in a document.
MaxSections == 2

\* The most rows in a list given to mergeRows and sortRows.
MaxRows == 3

\* The most list functions applied one after the other.
MaxOps == 2

\* The most input files on the command line.
MaxFiles == 2

\* The fields of two lots as they stand in the text: lot 1 is the row of the
\* example, lot 2 a row of another security.
LotFields(lot) ==
    IF lot = 1
    THEN [RefNumber |-> << "1", "2", "3", "4" >>,
          PlanNumber |-> << "R", "1", "8" >>,
          Description |-> << "A", "L", "P", "H", "A", "B", "E", "T", " ", "I", "N", "C", " ", "C", "L", " ", "C" >>,
          CUSIP |-> << "1", "2", "3", "4", "5", "A", "6", "7", "8" >>,
          Quantity |-> << "1", ".", "0", "0", "0", "0", "0", "0" >>,
          DateAcquired |-> << "0", "1", "/", "0", "1", "/", "2", "0" >>,
          DateSold |-> << "0", "2", "/", "0", "1", "/", "2", "0" >>,
          GrossProceeds |-> << "$", "2", ",", "0", "0", "0", ".", "0", "0" >>,
          CostBasis |-> << "$", "1", ",", "9", "9", "9", ".", "0", "0" >>]
    ELSE [RefNumber |-> << "7", "7" >>,
          PlanNumber |-> << "E", "0", "5" >>,
          Description |-> << "A", "C", "M", "E" >>,
          CUSIP |-> << "9", "B" >>,
          Quantity |-> << "2", ".", "5" >>,
          DateAcquired |-> << "V", "A", "R", "I", "O", "U", "S" >>,
          DateSold |-> << "3", "/", "4", "/", "2", "1" >>,
          GrossProceeds |-> << "$", "1", "0" >>,
          CostBasis |-> << "$", "9", ".", "5" >>]

\* n times the character c.
Rep(c, n) == [k \in 1..n |-> c]

\* A row line: which lot, whether it has a RefNumber and a PlanNumber, the
\* whitespace character between its fields, the length w1 of the run after
\* Description and after CUSIP and the length w2 of the other runs.
RowLines ==
    [lot : {1}, ref : BOOLEAN, plan : BOOLEAN, sep : {" ", "\n"},
     w1 : 1..MaxSep, w2 : 1..MaxSep]

\* The text of a row line; a newline ends it.
RowText(l) ==
    LET f == LotFields(l.lot)
        s1 == Rep(l.sep, l.w1)
        s2 == Rep(l.sep, l.w2)
    IN  (IF l.ref THEN f.RefNumber \o s2 ELSE << >>)
            \o (IF l.plan THEN f.PlanNumber \o s2 ELSE << >>)
            \o f.Description \o s1 \o f.CUSIP \o s1 \o f.Quantity \o s2
            \o f.DateAcquired \o s2 \o f.DateSold \o s2 \o f.GrossProceeds \o s2
            \o f.CostBasis \o << "\n" >>

\* The record whose fields are the tokens of a row line.
RowOfLine(l, category) ==
    LET f == LotFields(l.lot)
    IN  [Category |-> category,
         RefNumber |-> IF l.ref THEN f.RefNumber ELSE None,
         PlanNumber |-> IF l.plan THEN f.PlanNumber ELSE None,
         Description |-> f.Description, CUSIP |-> f.CUSIP, Quantity |-> f.Quantity,
         DateAcquired |-> f.DateAcquired, DateSold |-> f.DateSold,
         GrossProceeds |-> f.GrossProceeds, CostBasis |-> f.CostBasis]

\* Three row lines with single spaces: the row of the example, a row of the
\* other lot with neither RefNumber nor PlanNumber, and the row of the
\* example without them.
LineA == [lot |-> 1, ref |-> TRUE, plan |-> TRUE, sep |-> " ", w1 |-> 1, w2 |-> 1]

LineB == [lot |-> 2, ref |-> FALSE, plan |-> FALSE, sep |-> " ", w1 |-> 1, w2 |-> 1]

LineC == [lot |-> 1, ref |-> FALSE, plan |-> FALSE, sep |-> " ", w1 |-> 1, w2 |-> 1]

\* A section of a document: the line with the category name, the row lines,
\* and how the section closes: with no Total line, with the line "Total", or
\* with the line "Total " and the category name.
Sections ==
    [label : {ShortTerm, LongTerm}, lines : {<< LineA >>, << LineA, LineB >>},
     close : {"none", "Total", "TotalLabel"}]

SectionText(b) ==
    b.label \o << "\n" >>
        \o Concat(Tuple([k \in 1..Len(b.lines) |-> RowText(b.lines[k])]))
        \o (CASE b.close = "none" -> << >>
              [] b.close = "Total" -> Total \o << "\n" >>
              [] b.close = "TotalLabel" -> Total \o << " " >> \o b.label \o << "\n" >>)

\* An input of the parsing functions: a row line alone, or the sections of a
\* document.
ParseInputs ==
    { [lines |-> << l >>, sections |-> << >>] : l \in RowLines }
        \cup { [lines |-> << >>, sections |-> ss] : ss \in SeqsUpTo(Sections, MaxSections) }

InputText(in) ==
    Concat(Tuple([k \in 1..Len(in.lines) |-> RowText(in.lines[k])]))
        \o Concat(Tuple([k \in 1..Len(in.sections) |-> SectionText(in.sections[k])]))

NoInput == [lines |-> << >>, sections |-> << >>]

\* The rows given to the list functions: rows of the two lots as ROW_EXPR
\* gives them.  The first three differ in RefNumber, PlanNumber and the
\* amounts only, the fourth is the first under the other category, the fifth
\* differs from the first in CUSIP and the amounts, the sixth is the other lot.
RowPool ==
    LET r == RowOfLine(LineA, ShortTerm)
    IN  { r,
          [r EXCEPT !.RefNumber = None, !.PlanNumber = None,
                    !.Quantity = << "2", ".", "0", "0", "0", "0", "0", "0" >>,
                    !.GrossProceeds = << "$", "9", "9", "9", ".", "5" >>,
                    !.CostBasis = << "$", "1", ".", "0", "0" >>],
          [r EXCEPT !.RefNumber = << "9", "9" >>,
                    !.Quantity = << "0", ".", "2", "5" >>,
                    !.GrossProceeds = << "$", "1", "0", "0", "0" >>,
                    !.CostBasis = << "$", "0", ".", "0", "5" >>],
          [r EXCEPT !.Category = LongTerm],
          [r EXCEPT !.CUSIP = << "1", "2", "3", "4", "5", "A", "6", "7", "0" >>,
                    !.GrossProceeds = << "$", "3" >>],
          RowOfLine(LineB, ShortTerm) }

\* What stands for the text of a file on which pdftotext fails.
PdfError == << "CalledProcessError" >>

\* What pdftotext gives for the input files of the programs: a failure, a
\* text with no section, and three documents.
FileTexts ==
    { PdfError,
      RowText(LineA),
      SectionText([label |-> ShortTerm, lines |-> << LineA, LineB >>, close |-> "Total"]),
      SectionText([label |-> LongTerm, lines |-> << LineB, LineA >>, close |-> "TotalLabel"])
          \o SectionText([label |-> ShortTerm, lines |-> << LineA >>, close |-> "Total"]),
      SectionText([label |-> ShortTerm, lines |-> << LineC >>, close |-> "Total"]) }

----------------------------------------------------------------------------
(* Rendering *)

\* FIELDS
FIELDS ==
    << << "C", "a", "t", "e", "g", "o", "r", "y" >>,
       << "R", "e", "f", "N", "u", "m", "b", "e", "r" >>,
       << "P", "l", "a", "n", "N", "u", "m", "b", "e", "r" >>,
       << "D", "e", "s", "c", "r", "i", "p", "t", "i", "o", "n" >>,
       << "C", "U", "S", "I", "P" >>,
       << "Q", "u", "a", "n", "t", "i", "t", "y" >>,
       << "D", "a", "t", "e", "A", "c", "q", "u", "i", "r", "e", "d" >>,
       << "D", "a", "t", "e", "S", "o", "l", "d" >>,
       << "G", "r", "o", "s", "s", "P", "r", "o", "c", "e", "e", "d", "s" >>,
       << "C", "o", "s", "t", "B", "a", "s", "i", "s" >> >>

\* The names of the fields of a Row, in the order of FIELDS.
FieldNames ==
    << "Category", "RefNumber", "PlanNumber", "Description", "CUSIP", "Quantity",
       "DateAcquired", "DateSold", "GrossProceeds", "CostBasis" >>

\* A row as the tuple it is: its fields in the order of FIELDS.
RowTuple(r) == Tuple([k \in 1..Len(FieldNames) |-> r[FieldNames[k]]])

\* s with every quote character doubled.
RECURSIVE DoubleQuotes(_)
DoubleQuotes(s) ==
    IF s = << >> THEN << >>
    ELSE (IF Head(s) = "\"" THEN << "\"", "\"" >> ELSE << Head(s) >>) \o DoubleQuotes(Tail(s))

\* A field as csv.writer writes it in the excel dialect: None as the empty
\* string, and a field that holds the delimiter, a quote or a line break
\* between quotes.
CsvField(v) ==
    LET str == IF v = None THEN << >> ELSE v
    IN  IF \E k \in 1..Len(str) : str[k] \in {",", "\"", "\n", "\r"}
        THEN << "\"" >> \o DoubleQuotes(str) \o << "\"" >>
        ELSE str

\* sep.join(ss[1..n])
RECURSIVE JoinTo(_, _, _)
JoinTo(sep, ss, n) ==
    IF n = 0 THEN << >>
    ELSE IF n = 1 THEN ss[1]
    ELSE JoinTo(sep, ss, n - 1) \o sep \o ss[n]

Join(sep, ss) == JoinTo(sep, ss, Len(ss))

\* The line writer.writerow writes, without the line terminator.
writerow(fields) ==
    The({ Join(<< "," >>, fs) : fs \in { Tuple([k \in 1..Len(fields) |-> CsvField(fields[k])]) } })

\* filter(None, items): the items that are neither None nor empty.
RECURSIVE FilterNone(_)
FilterNone(ss) ==
    IF ss = << >> THEN << >>
    ELSE (IF Head(ss) = None \/ Head(ss) = << >> THEN << >> ELSE << Head(ss) >>)
             \o FilterNone(Tail(ss))

\* CATEGORIES[category]
EntryCode(category) ==
    CATEGORIES[CHOOSE k \in 1..Len(CATEGORIES) : CATEGORIES[k][1] = category][2]

\* parseAndPrintRow with a slip: the gross proceeds are printed before the
\* cost basis.
parseAndPrintRowGrossFirst(row) ==
    LET entry_code == EntryCode(row.Category)
        description ==
            The({ Join(<< " " >>, parts)
                  : parts \in { FilterNone(<< row.RefNumber, row.PlanNumber, row.Description >>) } })
    IN  << << "T", "D" >>,
           << "N" >> \o entry_code,
           << "C", "1" >>,
           << "L", "1" >>,
           << "P" >> \o description,
           << "D" >> \o row.DateAcquired,
           << "D" >> \o row.DateSold,
           row.GrossProceeds,
           row.CostBasis,
           << "$" >>,
           << "^" >> >>

\* The lines parseAndPrintRow(row) prints.
parseAndPrintRow(row) ==
    LET entry_code == EntryCode(row.Category)
        description ==
            The({ Join(<< " " >>, parts)
                  : parts \in { FilterNone(<< row.RefNumber, row.PlanNumber, row.Description >>) } })
    IN  << << "T", "D" >>,
           << "N" >> \o entry_code,
           << "C", "1" >>,
           << "L", "1" >>,
           << "P" >> \o description,
           << "D" >> \o row.DateAcquired,
           << "D" >> \o row.DateSold,
           row.CostBasis,
           row.GrossProceeds,
           << "$" >>,
           << "^" >> >>

\* datetime.datetime.now().strftime('%m/%d/%Y') on the day of the run.
Today == << "1", "1", "/", "0", "5", "/", "2", "0", "2", "6" >>

\* The lines parseAndPrintPdf prints before the rows.
Preamble ==
    << << "V", "0", "4", "2" >>,
       << "A", " ", "m", "s", "s", "b", "_", "1", "0", "9", "9", "b", "_", "t", "o", "_", "t", "x", "f" >>,
       << "D", " " >> \o Today,
       << "^" >> >>

----------------------------------------------------------------------------
(* The parsing functions on a text *)

InitParse ==
    /\ mode = "parse"
    /\ pc = "start"
    /\ input \in ParseInputs
    /\ text = InputText(input)
    /\ files = << >>
    /\ optSort = FALSE
    /\ optGroup = FALSE
    /\ fileIdx = 0
    /\ rowIdx = 0
    /\ rows = << >>
    /\ rows0 = << >>
    /\ ops = << >>
    /\ stdout = << >>

\* rows = _parseSection(text, section_name)
ParseSection ==
    /\ mode = "parse"
    /\ pc = "start"
    /\ \E section_name \in {ShortTerm, LongTerm} :
           rows' = parseSection(text, section_name)
    /\ pc' = "parseSection"
    /\ UNCHANGED << mode, input, text, files, optSort, optGroup, fileIdx, rowIdx,
                    rows0, ops, stdout >>

\* rows = parsePdf(path), pdftotext having given the text
ParsePdf ==
    /\ mode = "parse"
    /\ pc = "start"
    /\ rows' = parsePdf(text)
    /\ pc' = "parsePdf"
    /\ UNCHANGED << mode, input, text, files, optSort, optGroup, fileIdx, rowIdx,
                    rows0, ops, stdout >>

NextParse == ParseSection \/ ParsePdf

SpecParse == InitParse /\ [][NextParse]_vars

----------------------------------------------------------------------------
(* The list functions on a list of rows *)

InitRows ==
    /\ mode = "rows"
    /\ pc = "start"
    /\ input = NoInput
    /\ text = << >>
    /\ files = << >>
    /\ optSort = FALSE
    /\ optGroup = FALSE
    /\ fileIdx = 0
    /\ rowIdx = 0
    /\ rows \in {<< >>} \cup SeqsUpTo(RowPool, MaxRows)
    /\ rows0 = rows
    /\ ops = << >>
    /\ stdout = << >>

\* The orders in which the rows of rs can stand.
Reorderings(rs) ==
    { [k \in 1..Len(rs) |-> rs[p[k]]] : p \in Permutations(1..Len(rs)) }

\* mergeRows(rows)
MergeRows ==
    /\ mode = "rows"
    /\ pc \in {"start", "returned"}
    /\ Len(ops) < MaxOps
    /\ rows0' = rows
    /\ rows' = mergeRows(rows)
    /\ ops' = Append(ops, "mergeRows")
    /\ pc' = "returned"
    /\ UNCHANGED << mode, input, text, files, optSort, optGroup, fileIdx, rowIdx, stdout >>

\* sortRows(rows).  When list.sort raises, it leaves the list in some order.
SortRows ==
    /\ mode = "rows"
    /\ pc \in {"start", "returned"}
    /\ Len(ops) < MaxOps
    /\ rows0' = rows
    /\ ops' = Append(ops, "sortRows")
    /\ IF SortRaises(rows)
       THEN /\ pc' = "TypeError"
            /\ rows' \in Reorderings(rows)
       ELSE /\ pc' = "returned"
            /\ rows' = sortRows(rows)
    /\ UNCHANGED << mode, input, text, files, optSort, optGroup, fileIdx, rowIdx, stdout >>

NextRows == MergeRows \/ SortRows

SpecRows == InitRows /\ [][NextRows]_vars

----------------------------------------------------------------------------
(* The programs *)

Init ==
    /\ mode \in {"csv", "txf"}
    /\ pc = "start"
    /\ input = NoInput
    /\ text = << >>
    /\ files \in {<< >>} \cup SeqsUpTo(FileTexts, MaxFiles)
    /\ optSort \in (IF mode = "csv" THEN BOOLEAN ELSE {FALSE})
    /\ optGroup \in (IF mode = "csv" THEN BOOLEAN ELSE {FALSE})
    /\ fileIdx = 0
    /\ rowIdx = 0
    /\ rows = << >>
    /\ rows0 = << >>
    /\ ops = << >>
    /\ stdout = << >>

\* mssb_1099b_to_csv: p.parse_args().  The argument `file` takes one or more
\* paths.
CsvArgs ==
    /\ mode = "csv"
    /\ pc = "start"
    /\ pc' = IF Len(files) = 0 THEN "usage" ELSE "parsePdf"
    /\ UNCHANGED << mode, input, text, files, optSort, optGroup, fileIdx, rowIdx,
                    rows, rows0, ops, stdout >>

\* CsvParsePdf with a slip: the header and the rows of a file are written as
\* soon as the file is parsed.
CsvParsePdfStreaming ==
    /\ mode = "csv"
    /\ pc = "parsePdf"
    /\ IF files[fileIdx + 1] = PdfError
       THEN /\ pc' = "CalledProcessError"
            /\ UNCHANGED << fileIdx, rows, stdout >>
       ELSE /\ rows' = rows \o parsePdf(files[fileIdx + 1])
            /\ stdout' = (IF fileIdx = 0 THEN << writerow(FIELDS) >> ELSE stdout)
                             \o [k \in 1..Len(parsePdf(files[fileIdx + 1])) |->
                                    writerow(RowTuple(parsePdf(files[fileIdx + 1])[k]))]
            /\ fileIdx' = fileIdx + 1
            /\ pc' = IF fileIdx + 1 = Len(files) THEN "group" ELSE "parsePdf"
    /\ UNCHANGED << mode, input, text, files, optSort, optGroup, rowIdx, rows0, ops >>

\* mssb_1099b_to_csv: parsePdf(filename) for the next file of
\* rows = [row for filename in args.file for row in parsePdf(filename)].
\* subprocess.check_output raises when pdftotext fails.
CsvParsePdf ==
    /\ mode = "csv"
    /\ pc = "parsePdf"
    /\ IF files[fileIdx + 1] = PdfError
       THEN /\ pc' = "CalledProcessError"
            /\ UNCHANGED << fileIdx, rows >>
       ELSE /\ rows' = rows \o parsePdf(files[fileIdx + 1])
            /\ fileIdx' = fileIdx + 1
            /\ pc' = IF fileIdx + 1 = Len(files) THEN "group" ELSE "parsePdf"
    /\ UNCHANGED << mode, input, text, files, optSort, optGroup, rowIdx, rows0, ops, stdout >>

\* mssb_1099b_to_csv: if args.group: mergeRows(rows)
CsvGroup ==
    /\ mode = "csv"
    /\ pc = "group"
    /\ rows' = IF optGroup THEN mergeRows(rows) ELSE rows
    /\ pc' = "sort"
    /\ UNCHANGED << mode, input, text, files, optSort, optGroup, fileIdx, rowIdx,
                    rows0, ops, stdout >>

\* CsvSort with a slip: the rows are sorted only if --sort is given.
CsvSortOnlyWithSort ==
    /\ mode = "csv"
    /\ pc = "sort"
    /\ IF optSort
       THEN IF SortRaises(rows)
            THEN /\ pc' = "TypeError"
                 /\ UNCHANGED rows
            ELSE /\ pc' = "write"
                 /\ rows' = sortRows(rows)
       ELSE /\ pc' = "write"
            /\ UNCHANGED rows
    /\ UNCHANGED << mode, input, text, files, optSort, optGroup, fileIdx, rowIdx,
                    rows0, ops, stdout >>

\* mssb_1099b_to_csv: if args.sort or args.group: sortRows(rows).  A TypeError
\* ends the program, which does not read the list again.
CsvSort ==
    /\ mode = "csv"
    /\ pc = "sort"
    /\ IF optSort \/ optGroup
       THEN IF SortRaises(rows)
            THEN /\ pc' = "TypeError"
                 /\ UNCHANGED rows
            ELSE /\ pc' = "write"
                 /\ rows' = sortRows(rows)
       ELSE /\ pc' = "write"
            /\ UNCHANGED rows
    /\ UNCHANGED << mode, input, text, files, optSort, optGroup, fileIdx, rowIdx,
                    rows0, ops, stdout >>

\* mssb_1099b_to_csv: writer.writerow(FIELDS)
CsvWriteHeader ==
    /\ mode = "csv"
    /\ pc = "write"
    /\ stdout' = Append(stdout, writerow(FIELDS))
    /\ pc' = "writerows"
    /\ UNCHANGED << mode, input, text, files, optSort, optGroup, fileIdx, rowIdx,
                    rows, rows0, ops >>

\* mssb_1099b_to_csv: writer.writerows(rows)
CsvWriteRows ==
    /\ mode = "csv"
    /\ pc = "writerows"
    /\ stdout' = stdout \o [k \in 1..Len(rows) |-> writerow(RowTuple(rows[k]))]
    /\ pc' = "done"
    /\ UNCHANGED << mode, input, text, files, optSort, optGroup, fileIdx, rowIdx,
                    rows, rows0, ops >>

\* mssb_1099b_to_txf: if len(sys.argv) != 2: sys.exit(usage)
TxfArgs ==
    /\ mode = "txf"
    /\ pc = "start"
    /\ pc' = IF Len(files) # 1 THEN "usage" ELSE "parsePdf"
    /\ UNCHANGED << mode, input, text, files, optSort, optGroup, fileIdx, rowIdx,
                    rows, rows0, ops, stdout >>

\* parseAndPrintPdf: rows = mssb_1099b_to_csv.parsePdf(path)
TxfParsePdf ==
    /\ mode = "txf"
    /\ pc = "parsePdf"
    /\ IF files[1] = PdfError
       THEN /\ pc' = "CalledProcessError"
            /\ UNCHANGED << fileIdx, rows >>
       ELSE /\ rows' = parsePdf(files[1])
            /\ fileIdx' = 1
            /\ pc' = "preamble"
    /\ UNCHANGED << mode, input, text, files, optSort, optGroup, rowIdx, rows0, ops, stdout >>

\* parseAndPrintPdf: the four prints before the loop
TxfPreamble ==
    /\ mode = "txf"
    /\ pc = "preamble"
    /\ stdout' = stdout \o Preamble
    /\ pc' = IF rows = << >> THEN "done" ELSE "rows"
    /\ UNCHANGED << mode, input, text, files, optSort, optGroup, fileIdx, rowIdx,
                    rows, rows0, ops >>

\* parseAndPrintPdf: parseAndPrintRow(row) for the next row of the loop
TxfPrintRow ==
    /\ mode = "txf"
    /\ pc = "rows"
    /\ stdout' = stdout \o parseAndPrintRow(rows[rowIdx + 1])
    /\ rowIdx' = rowIdx + 1
    /\ pc' = IF rowIdx + 1 = Len(rows) THEN "done" ELSE "rows"
    /\ UNCHANGED << mode, input, text, files, optSort, optGroup, fileIdx,
                    rows, rows0, ops >>

Next ==
    \/ CsvArgs
    \/ CsvParsePdf
    \/ CsvGroup
    \/ CsvSort
    \/ CsvWriteHeader
    \/ CsvWriteRows
    \/ TxfArgs
    \/ TxfParsePdf
    \/ TxfPreamble
    \/ TxfPrintRow

Spec == Init /\ [][Next]_vars

----------------------------------------------------------------------------
(* Properties of the parsing functions, under SpecParse *)

\* The line starts of the text at which ROW_EXPR matches.
MatchingLineStarts == {s \in 1..Len(text) : ROW_EXPR(text, s).ok}

\* The matches of ROW_EXPR at the line starts of the text, each with the line
\* start it is at.
LineStartMatches ==
    {x \in UNION { { << s, r >> : r \in { ROW_EXPR(text, s) } } : s \in 1..Len(text) } : x[2].ok}

\* The positions where a category name stands in the text and no line after
\* it begins with Total.
UnterminatedLabels ==
    {p \in 1..Len(text) :
        /\ \E k \in 1..Len(CATEGORIES) : LitAt(text, p, CATEGORIES[k][1])
        /\ ~\E e \in (p + 1)..Len(text) : LineStart(text, e) /\ LitAt(text, e, Total)}

\* The rows of the row lines of a section under a category.
SectionRows(b, category) ==
    Tuple([k \in 1..Len(b.lines) |-> RowOfLine(b.lines[k], category)])

\* C1: _parseSection on a body of one row line, its fields separated by runs
\* of whitespace of any length, gives exactly one record, and the fields of
\* the record are the tokens of the line: Description is the name of the
\* security with no whitespace before or after it.
C1_RowFieldsAreTokens ==
    (pc = "parseSection" /\ input.lines # << >>)
        => /\ Len(rows) = 1
           /\ rows[1] = RowOfLine(input.lines[1], rows[1].Category)

\* C2 as stated: _parseSection gives as many records as there are line starts
\* of the body at which the row grammar matches.
C2_OneRecordPerMatchingLineStart ==
    pc = "parseSection" => Len(rows) = Cardinality(MatchingLineStarts)

\* C2 as amended: _parseSection gives one record for every line start at which
\* the row grammar matches and which does not lie inside the match of an
\* earlier record, in the order of the text and with the groups of the match
\* at that line start; a matching line start inside the match of an earlier
\* record gives none.  The set E of the line starts that give a record is the
\* one set of matching line starts that holds s exactly when every earlier
\* member's match ends at or before s.
C2_OneRecordPerMatchOutsideEarlierMatch ==
    pc = "parseSection" =>
        \A M \in { LineStartMatches } :
            LET Es == {E \in SUBSET M :
                          E = {x \in M : \A e \in E : e[1] < x[1] => e[2].end <= x[1]}}
            IN  /\ Cardinality(Es) = 1
                /\ \A E \in Es :
                      /\ Len(rows) = Cardinality(E)
                      /\ \A x \in E :
                            \A k \in { Cardinality({e \in E : e[1] <= x[1]}) } :
                                rows[k] = Row(rows[k].Category, x[2].groups)

\* Witness of C2: a body with a matching line start inside the match of a
\* record.
C2_Witness ==
    /\ pc = "parseSection"
    /\ Len(rows) >= 1
    /\ Cardinality(MatchingLineStarts) > Len(rows)

\* C9: a category name with no line beginning with Total after it opens no
\* section: parsePdf gives the records of the text before it and none from
\* the row lines after it; and a document in which no category name is
\* followed by such a line gives no record (and no error).
C9_UnterminatedLabelGivesNoRecords ==
    pc = "parsePdf" =>
        /\ \A p \in UnterminatedLabels : rows = parsePdf(SubSeq(text, 1, p - 1))
        /\ (\A p \in 1..Len(text) :
               (\E k \in 1..Len(CATEGORIES) : LitAt(text, p, CATEGORIES[k][1]))
                   => p \in UnterminatedLabels)
             => rows = << >>

\* Witness of C9: a document with records in which a category name that no
\* Total line follows has a row line after it.
C9_Witness ==
    /\ pc = "parsePdf"
    /\ rows # << >>
    /\ \E p \in UnterminatedLabels : \E s \in MatchingLineStarts : s > p

\* C10: for a document of sections that each close with a Total line (the
\* line may repeat the category name), every record of parsePdf has the
\* category that opened its section, and the records are the rows of the
\* sections, each once, in order.
C10_RowsCarryTheirSectionsCategory ==
    (pc = "parsePdf" /\ input.sections # << >>
        /\ \A k \in 1..Len(input.sections) : input.sections[k].close # "none")
        => rows = Concat(Tuple([k \in 1..Len(input.sections) |->
                                   SectionRows(input.sections[k], input.sections[k].label)]))

----------------------------------------------------------------------------
(* Properties of mergeRows and sortRows, under SpecRows *)

\* The list function applied last, "" if none was.
LastOp == IF ops = << >> THEN "" ELSE ops[Len(ops)]

\* The position in rs of the first row with the key.
FirstWithKey(rs, key) == Min({j \in 1..Len(rs) : GroupBy(rs[j]) = key})

\* The number an amount stands for, as a multiple of 10^-p; the amount has
\* at most p digits after the point.
Scaled(string, p) == D(string).coef * Pow10(p - D(string).places)

\* The sum, as a multiple of 10^-p, of the amounts of a field over the rows
\* of rs at the positions in idx.
RECURSIVE SumScaled(_, _, _, _)
SumScaled(rs, idx, field_name, p) ==
    IF idx = {} THEN 0
    ELSE LET j == CHOOSE x \in idx : TRUE
         IN  Scaled(rs[j][field_name], p) + SumScaled(rs, idx \ {j}, field_name, p)

\* The amount total is the exact sum of the amounts of a field over the rows
\* of rs at the positions in idx.
IsExactSum(total, rs, idx, field_name) ==
    LET p == Max({D(total).places} \cup {D(rs[j][field_name]).places : j \in idx})
    IN  Scaled(total, p) = SumScaled(rs, idx, field_name, p)

\* The three fields mergeRows sums.
SummedFields == {"Quantity", "GrossProceeds", "CostBasis"}

\* C3: mergeRows leaves one row for every key (Category, Description, CUSIP,
\* DateAcquired, DateSold) of the list it was given: no two rows of the result
\* have the same key, every key of the input is the key of a row of the
\* result, the rows stand in the order in which their keys first occur in the
\* input, and each row has the key fields of the first row of the input with
\* that key and the empty string as RefNumber and PlanNumber.
C3_MergeLeavesOneRowPerKey ==
    LastOp = "mergeRows" =>
        /\ \A i, j \in 1..Len(rows) : i # j => GroupBy(rows[i]) # GroupBy(rows[j])
        /\ {GroupBy(rows[i]) : i \in 1..Len(rows)} = {GroupBy(rows0[j]) : j \in 1..Len(rows0)}
        /\ \A i, j \in 1..Len(rows) :
              i < j => FirstWithKey(rows0, GroupBy(rows[i])) < FirstWithKey(rows0, GroupBy(rows[j]))
        /\ \A i \in 1..Len(rows) :
              LET first == rows0[FirstWithKey(rows0, GroupBy(rows[i]))]
              IN  /\ rows[i].Category = first.Category
                  /\ rows[i].Description = first.Description
                  /\ rows[i].CUSIP = first.CUSIP
                  /\ rows[i].DateAcquired = first.DateAcquired
                  /\ rows[i].DateSold = first.DateSold
                  /\ rows[i].RefNumber = << >>
                  /\ rows[i].PlanNumber = << >>

\* Witness of C3: mergeRows has merged rows that had a RefNumber into fewer
\* rows, of more than one key.
C3_Witness ==
    /\ LastOp = "mergeRows"
    /\ Len(rows) >= 2
    /\ Len(rows) < Len(rows0)
    /\ \E j \in 1..Len(rows0) : rows0[j].RefNumber \notin {None, << >>}

\* C4: the Quantity, GrossProceeds and CostBasis of a merged row are the same
\* strings in whatever order the rows are given to mergeRows, each is the
\* exact sum of the field over the rows of the group, and GrossProceeds and
\* CostBasis keep the "$" before the amount.
C4_MergedAmountsAreExactSumsInAnyOrder ==
    LastOp = "mergeRows" =>
        /\ \A q \in Reorderings(rows0) :
              \A r \in Range(mergeRows(q)) :
                  \E i \in 1..Len(rows) :
                      /\ GroupBy(rows[i]) = GroupBy(r)
                      /\ \A f \in SummedFields : rows[i][f] = r[f]
        /\ \A i \in 1..Len(rows) :
              /\ \A f \in SummedFields :
                    IsExactSum(rows[i][f], rows0,
                               {j \in 1..Len(rows0) : GroupBy(rows0[j]) = GroupBy(rows[i])}, f)
              /\ CharAt(rows[i].GrossProceeds, 1, "$")
              /\ CharAt(rows[i].CostBasis, 1, "$")
              /\ ~CharAt(rows[i].Quantity, 1, "$")

\* Witness of C4: two rows that differ in RefNumber, PlanNumber and the
\* amounts, with Quantity 1.000000 and 2.000000, merged into one row with
\* Quantity 3.000000.
C4_Witness ==
    /\ LastOp = "mergeRows"
    /\ Len(rows0) = 2
    /\ rows0[1].Quantity = << "1", ".", "0", "0", "0", "0", "0", "0" >>
    /\ rows0[2].Quantity = << "2", ".", "0", "0", "0", "0", "0", "0" >>
    /\ rows0[1].RefNumber # rows0[2].RefNumber
    /\ Len(rows) = 1
    /\ rows[1].Quantity = << "3", ".", "0", "0", "0", "0", "0", "0" >>
    /\ rows[1].GrossProceeds = << "$", "2", ",", "9", "9", "9", ".", "5", "0" >>
    /\ rows[1].CostBasis = << "$", "2", ",", "0", "0", "0", ".", "0", "0" >>

\* C5: sortRows on rows as ROW_EXPR gives them, where a RefNumber is a string
\* of digits or None, returns and leaves the rows it was given in ascending
\* order of (Category, Description, DateAcquired, DateSold, RefNumber), any
\* two keys being comparable; and sortRows on the sorted list leaves it as it is.
C5_SortReturnsSortedPermutation ==
    LastOp = "sortRows" =>
        /\ pc = "returned"
        /\ rows \in Reorderings(rows0)
        /\ \A i, j \in 1..Len(rows) :
              i < j => /\ ~KeyCompareRaises(SortKey(rows[i]), SortKey(rows[j]))
                       /\ ~KeyLess(SortKey(rows[j]), SortKey(rows[i]))
        /\ sortRows(rows) = rows

----------------------------------------------------------------------------
(* Properties of the two programs, under Spec *)

\* The rows of the input files in the order of extraction: file by file, and
\* in a file section by section and row by row.
Extracted == Concat(Tuple([k \in 1..Len(files) |-> parsePdf(files[k])]))

\* Some input file is one on which pdftotext fails.
SomeFileFails == \E k \in 1..Len(files) : files[k] = PdfError

\* The line of the description of a TXF record: RefNumber, PlanNumber and
\* Description, those that are there, with one space between them.
PLine(r) ==
    << "P" >>
        \o (IF r.RefNumber \in {None, << >>} THEN << >> ELSE r.RefNumber \o << " " >>)
        \o (IF r.PlanNumber \in {None, << >>} THEN << >> ELSE r.PlanNumber \o << " " >>)
        \o r.Description

\* The eleven lines of a TXF record.
TxfBlock(r) ==
    << << "T", "D" >>,
       IF r.Category = ShortTerm THEN << "N", "7", "1", "1" >> ELSE << "N", "7", "1", "3" >>,
       << "C", "1" >>,
       << "L", "1" >>,
       PLine(r),
       << "D" >> \o r.DateAcquired,
       << "D" >> \o r.DateSold,
       r.CostBasis,
       r.GrossProceeds,
       << "$" >>,
       << "^" >> >>

\* C6: mssb_1099b_to_csv writes the header and then the rows of its list.
\* With --group, with or without --sort, the list is merged and then sorted:
\* no two rows written have the same grouping key, the rows are in ascending
\* order of the sort key, they have the keys of the extracted rows and the
\* RefNumber and PlanNumber that merging leaves.  With neither flag the rows
\* written are the extracted rows in the order of extraction.
C6_GroupImpliesSort ==
    /\ (mode = "csv" /\ optGroup) => pc # "TypeError"
    /\ (mode = "csv" /\ pc = "done") =>
          /\ stdout = << writerow(FIELDS) >>
                         \o [k \in 1..Len(rows) |-> writerow(RowTuple(rows[k]))]
          /\ optGroup =>
                /\ \A i, j \in 1..Len(rows) :
                      i < j => /\ GroupBy(rows[i]) # GroupBy(rows[j])
                               /\ ~KeyCompareRaises(SortKey(rows[i]), SortKey(rows[j]))
                               /\ ~KeyLess(SortKey(rows[j]), SortKey(rows[i]))
                /\ {GroupBy(rows[i]) : i \in 1..Len(rows)}
                       = {GroupBy(Extracted[j]) : j \in 1..Len(Extracted)}
                /\ \A i \in 1..Len(rows) :
                      rows[i].RefNumber = << >> /\ rows[i].PlanNumber = << >>
          /\ (~optGroup /\ ~optSort) => rows = Extracted

\* Witness of C6: a run with --group and without --sort has written rows that
\* are fewer than the extracted rows and not in the order merging left them in.
C6_Witness ==
    /\ mode = "csv"
    /\ pc = "done"
    /\ optGroup
    /\ ~optSort
    /\ Len(rows) >= 2
    /\ Len(rows) < Len(Extracted)
    /\ rows # mergeRows(Extracted)
    /\ Len(stdout) = Len(rows) + 1

\* C7: mssb_1099b_to_txf prints the four lines of the preamble once and then,
\* for each extracted row in the order of extraction, the eleven lines of its
\* record: TD, N and the code of the category (711 short term, 713 long
\* term), C1, L1, P and the description, D and DateAcquired, D and DateSold,
\* CostBasis, GrossProceeds, "$" and "^".
C7_TxfRecordBlocks ==
    (mode = "txf" /\ pc \in {"rows", "done"}) =>
        /\ stdout = << << "V", "0", "4", "2" >>, << "A", " ", "m", "s", "s", "b", "_", "1", "0", "9", "9", "b", "_", "t", "o", "_", "t", "x", "f" >>, << "D", " " >> \o Today, << "^" >> >>
                       \o Concat(Tuple([k \in 1..rowIdx |-> TxfBlock(parsePdf(files[1])[k])]))
        /\ pc = "done" => rowIdx = Len(parsePdf(files[1]))

\* Witness of C7: a finished run that printed the records of rows with and
\* without a RefNumber.
C7_Witness ==
    /\ mode = "txf"
    /\ pc = "done"
    /\ Len(rows) >= 2
    /\ Len(stdout) = 4 + 11 * Len(rows)
    /\ \E i, j \in 1..Len(rows) : rows[i].RefNumber = None /\ rows[j].RefNumber # None
    /\ stdout[9] = << "P", "1", "2", "3", "4", " ", "R", "1", "8", " ", "A", "L", "P", "H", "A", "B", "E", "T", " ", "I", "N", "C", " ", "C", "L", " ", "C" >>

\* C8: when pdftotext fails on an input file, the run ends with the error and
\* has written nothing: a run with such a file among its input files never
\* gets past parsing and never writes a line, also when the files before it
\* were parsed.
C8_ExtractionFailureWritesNothing ==
    /\ pc = "CalledProcessError" => stdout = << >>
    /\ SomeFileFails =>
          /\ pc \in {"start", "usage", "parsePdf", "CalledProcessError"}
          /\ stdout = << >>
    /\ (pc = "parsePdf" /\ files[fileIdx + 1] = PdfError) => ENABLED (pc' = "CalledProcessError" /\ Next)

\* Witness of C8: the tabular run has ended with the error on its second
\* file, after it had parsed rows from the first.
C8_Witness ==
    /\ mode = "csv"
    /\ pc = "CalledProcessError"
    /\ fileIdx >= 1
    /\ rows # << >>
    /\ stdout = << >>

====
